---- MODULE Spec2Model ----
(***************************************************************************)
(* Model of the multi-agent collaboration orchestrator of                  *)
(* enhanced-qa-agent.js (class MultiAgentOrchestrator): the three strategy *)
(* executors, the agent caller, the confidence estimator and the           *)
(* synthesizers.                                                           *)
(*                                                                         *)
(* Strings are sequences of tokens.  A token [w, n] is the first n         *)
(* characters of the piece w; a piece is a word followed by one blank, or  *)
(* a literal of a template.  A whole piece has n = PieceLen(w).            *)
(***************************************************************************)
EXTENDS Naturals, Integers, Sequences, FiniteSets, TLC

(***************************************************************************)
(* Bounds of the model.                                                    *)
(***************************************************************************)
MaxRounds == 2      \* largest rounds argument of a direct runDebateMode call
MaxRecords == 3     \* longest record list handed directly to buildConsensus
MaxWords == 4       \* longest text, in words, handed directly to estimateConfidence
MaxOllamaModels == 3 \* most models the local ollama server lists
MaxQueries == 2      \* longest list of queries handed to processBatchQueries
MaxSessions == 2    \* sessions created by one SessionManager
MaxConversations == 2  \* conversations added to one session

(***************************************************************************)
(* Strings.                                                                *)
(***************************************************************************)
\* Length in characters of a word without its trailing blank; "passage" stands
\* for a long passage that holds none of the marker words.
WordLen(w) == IF w = "passage" THEN 799 ELSE Len(w)

PieceLen(w) == WordLen(w) + 1

Tok(w) == [w |-> w, n |-> PieceLen(w)]

\* A literal piece of a template string.
Lit(s) == [w |-> s, n |-> Len(s)]

RECURSIVE Words(_)
\* The string made of the given words, each followed by a blank.
Words(ws) == IF ws = <<>> THEN <<>> ELSE <<Tok(Head(ws))>> \o Words(Tail(ws))

RECURSIVE Length(_)
\* String.prototype.length
Length(t) == IF t = <<>> THEN 0 ELSE Head(t).n + Length(Tail(t))

RECURSIVE Substring(_, _)
\* String.prototype.substring(0, k)
Substring(t, k) ==
  IF t = <<>> \/ k = 0 THEN <<>>
  ELSE IF Head(t).n <= k
       THEN <<Head(t)>> \o Substring(Tail(t), k - Head(t).n)
       ELSE <<[w |-> Head(t).w, n |-> k]>>

\* String.prototype.includes for a one-word and for a two-word needle.
Includes(t, w) == \E i \in 1..Len(t) : t[i].w = w /\ t[i].n >= WordLen(w)

Includes2(t, w1, w2) ==
  \E i \in 1..(Len(t) - 1) :
    /\ t[i].w = w1 /\ t[i].n = PieceLen(w1)
    /\ t[i + 1].w = w2 /\ t[i + 1].n >= WordLen(w2)

\* String.prototype.trim, for a string that neither starts with a blank nor
\* ends with more than one.
Trim(t) ==
  IF t = <<>> THEN <<>>
  ELSE LET last == t[Len(t)]
       IN  IF last.n = PieceLen(last.w) /\ last.n > 1
           THEN SubSeq(t, 1, Len(t) - 1) \o <<[w |-> last.w, n |-> last.n - 1]>>
           ELSE t

\* A null where a string is expected (message.content of a reply without text).
Absent == <<[w |-> "null", n |-> 0]>>

\* The interpolation ${x} of a template literal.
Interpolate(x) == IF x = Absent THEN <<Lit("null")>> ELSE x

(***************************************************************************)
(* Confidence estimator.                                                   *)
(***************************************************************************)
Max(a, b) == IF a >= b THEN a ELSE b
Min(a, b) == IF a <= b THEN a ELSE b

\* The score with "definitely" and "clearly" rewarded separately.
rawConfidence_perMarker(response) ==
  50
  + (IF Includes(response, "definitely") THEN 15 ELSE 0)
  + (IF Includes(response, "clearly") THEN 15 ELSE 0)
  + (IF Includes(response, "evidence") \/ Includes(response, "data") THEN 10 ELSE 0)
  + (IF Includes(response, "research") \/ Includes(response, "studies") THEN 10 ELSE 0)
  + (IF Length(response) > 800 THEN 10 ELSE 0)
  - (IF Includes(response, "might") \/ Includes(response, "possibly") THEN 10 ELSE 0)
  - (IF Includes(response, "uncertain") \/ Includes2(response, "not", "sure") THEN 15 ELSE 0)
  - (IF Includes2(response, "I", "think") \/ Includes(response, "probably") THEN 5 ELSE 0)

\* The score with the length bonus given from 800 characters on.
rawConfidence_from800(response) ==
  50
  + (IF Includes(response, "definitely") \/ Includes(response, "clearly") THEN 15 ELSE 0)
  + (IF Includes(response, "evidence") \/ Includes(response, "data") THEN 10 ELSE 0)
  + (IF Includes(response, "research") \/ Includes(response, "studies") THEN 10 ELSE 0)
  + (IF Length(response) >= 800 THEN 10 ELSE 0)
  - (IF Includes(response, "might") \/ Includes(response, "possibly") THEN 10 ELSE 0)
  - (IF Includes(response, "uncertain") \/ Includes2(response, "not", "sure") THEN 15 ELSE 0)
  - (IF Includes2(response, "I", "think") \/ Includes(response, "probably") THEN 5 ELSE 0)

rawConfidence(response) ==
  50
  + (IF Includes(response, "definitely") \/ Includes(response, "clearly") THEN 15 ELSE 0)
  + (IF Includes(response, "evidence") \/ Includes(response, "data") THEN 10 ELSE 0)
  + (IF Includes(response, "research") \/ Includes(response, "studies") THEN 10 ELSE 0)
  + (IF Length(response) > 800 THEN 10 ELSE 0)
  - (IF Includes(response, "might") \/ Includes(response, "possibly") THEN 10 ELSE 0)
  - (IF Includes(response, "uncertain") \/ Includes2(response, "not", "sure") THEN 15 ELSE 0)
  - (IF Includes2(response, "I", "think") \/ Includes(response, "probably") THEN 5 ELSE 0)

\* The estimator without the lower clamp.
estimateConfidence_noFloor(response) == Min(95, rawConfidence(response))

\* Math.max(25, Math.min(95, confidence))
estimateConfidence(response) == Max(25, Min(95, rawConfidence(response)))

(***************************************************************************)
(* Providers, agents and the inputs of a run.                              *)
(***************************************************************************)
\* The keys of the MODELS registry handed to the orchestrator's constructor.
MODELS == {"openai", "ollama", "openrouter"}

\* The agents a caller may select; the last one names a provider that is not
\* in MODELS.
AgentPool ==
  { [provider |-> "openai",  model |-> "gpt-3.5-turbo"],
    [provider |-> "ollama",  model |-> "gemma2:2b"],
    [provider |-> "mistral", model |-> "mistral-7b"] }

\* Agent lists without a repeated (provider, model) pair, the empty list included.
AgentLists ==
  UNION { { l \in [1..n -> AgentPool] : \A i, j \in 1..n : i # j => l[i] # l[j] }
          : n \in 0..Cardinality(AgentPool) }

Modes == {"Debate", "Pipeline", "Consensus", "Unknown"}

Inputs == { Words(<<"is", "it", "fine">>) }

\* The texts a provider may answer with: a short one scoring 20 before clamping
\* and one of 825 characters, longer than every preview, scoring 95.  Neither
\* ends with a blank.
TextLow  == Trim(Words(<<"might", "uncertain", "probably">>))
TextHigh == Trim(Words(<<"clearly", "evidence", "research", "passage">>))
ReplyTexts == {TextLow, TextHigh}

\* The words of the texts handed directly to estimateConfidence: the marker
\* words and the long passage, which holds none of them.
Vocabulary ==
  { "definitely", "clearly", "evidence", "data", "research", "studies",
    "might", "possibly", "uncertain", "not", "sure", "I", "think", "probably",
    "passage" }

ScoredTexts == { Words(ws) : ws \in UNION { [1..n -> Vocabulary] : n \in 0..MaxWords } }

\* The confidences of the records handed directly to buildConsensus.
SampleConfidences == {40, 60, 75, 76, 80}

\* Record lists handed directly to buildConsensus: the i-th record is attributed
\* to the i-th of a fixed list of agent names.
SampleRecordLists ==
  LET name(i) == "agent-" \o ToString(i)
  IN  UNION { { [ i \in 1..n |-> [ agent      |-> name(i),
                                   response   |-> f[i].response,
                                   confidence |-> f[i].confidence ] ]
                : f \in [1..n -> [response : ReplyTexts, confidence : SampleConfidences]] }
              : n \in 0..MaxRecords }

\* `${agent.provider}-${agent.model}`
agentName(agent) == agent.provider \o "-" \o agent.model

(***************************************************************************)
(* Agent caller.  What the provider does with the one request of a call:   *)
(* the request fails, the body does not parse, or the body parses and      *)
(* carries a text (for the chat providers message.content, which may be    *)
(* null).  No request is made for a provider that is not in MODELS.        *)
(***************************************************************************)
VARIABLE models  \* this.models of the orchestrator: the providers it holds

NoRequest == [kind |-> "no request"]

Replies(agent) ==
  IF agent.provider \notin models
  THEN { NoRequest }
  ELSE { [kind |-> "network error"], [kind |-> "malformed body"] }
       \cup { [kind |-> "body", text |-> t] : t \in ReplyTexts }
       \cup ( IF agent.provider = "ollama"
              THEN {}
              ELSE { [kind |-> "body", text |-> Absent] } )

\* The number of fetch calls when a failed request is sent once more.
requestsSent_retry(agent, reply) ==
  IF agent.provider \notin models THEN 0
  ELSE IF reply.kind = "network error" THEN 2 ELSE 1

\* The number of fetch calls of one callSingleAgent(agent, input).
requestsSent(agent, reply) == IF agent.provider \notin models THEN 0 ELSE 1

\* this.models after a callSingleAgent that forgets a provider whose request
\* failed.
modelsAfterCall_dropsFailed(agent, reply) ==
  IF reply.kind = "network error" THEN models \ {agent.provider} ELSE models

\* this.models after callSingleAgent(agent, input): the call only reads it.
modelsAfterCall(agent, reply) == models

\* The result callSingleAgent(agent, input) settles with, given the reply.  For
\* ollama every line that does not parse is skipped and the texts of the others
\* are joined and trimmed; for the chat providers JSON.parse or extract throws
\* into the catch, or extract returns message.content.
callSingleAgent(agent, reply) ==
  IF agent.provider \notin models
  THEN [success |-> FALSE, error |-> "Provider not found"]
  ELSE IF reply.kind = "network error"
  THEN [success |-> FALSE, error |-> "fetch failed"]
  ELSE IF agent.provider = "ollama"
  THEN [success |-> TRUE,
        result  |-> Trim(IF reply.kind = "malformed body" THEN <<>> ELSE reply.text)]
  ELSE IF reply.kind = "malformed body"
  THEN [success |-> FALSE, error |-> "Unexpected token in JSON"]
  ELSE [success |-> TRUE, result |-> reply.text]

(***************************************************************************)
(* Return values.                                                          *)
(***************************************************************************)
NoValue == [kind |-> "none"]
Returned(report) == [kind |-> "report", report |-> report]
Thrown == [kind |-> "throw", error |-> "TypeError"]

(***************************************************************************)
(* Synthesizers.  A report is the record of the parts of the string, in    *)
(* the order in which the code appends them; the fixed decoration (rules,  *)
(* emphasis marks, the upper-casing of a section label) is left out.       *)
(***************************************************************************)
RECURSIVE agentOrder(_, _)
\* The keys of agentSummary in insertion order.
agentOrder(responses, seen) ==
  IF responses = <<>> THEN <<>>
  ELSE IF Head(responses).agent \in seen
       THEN agentOrder(Tail(responses), seen)
       ELSE <<Head(responses).agent>>
            \o agentOrder(Tail(responses), seen \cup {Head(responses).agent})

synthesizeDebateResults(responses) ==
  IF \E i \in 1..Len(responses) : responses[i].response = Absent
  THEN Thrown
  ELSE Returned(
    [ title    |-> "MULTI-AGENT DEBATE SYNTHESIS",
      sections |->
        LET order == agentOrder(responses, {})
            section(a) ==
              LET own == SelectSeq(responses, LAMBDA r : r.agent = a)
              IN  [ agent      |-> a,
                    last       |-> Substring(own[Len(own)].response, 400)
                                   \o <<Lit("...")>>,
                    iterations |-> Len(own) ]
        IN  [ i \in 1..Len(order) |-> section(order[i]) ],
      total    |-> Len(responses) ])

synthesizePipelineResults(results) ==
  IF \/ \E i \in 1..Len(results) : results[i].output = Absent
     \/ results = <<>>
  THEN Thrown
  ELSE Returned(
    [ title    |-> "MULTI-AGENT PIPELINE SYNTHESIS",
      executed |-> Len(results),
      steps    |->
        [ i \in 1..Len(results) |->
            [ step   |-> results[i].step,
              agent  |-> results[i].agent,
              input  |-> IF i = 1 THEN results[i].input ELSE <<>>,
              output |-> Substring(results[i].output, 300) \o <<Lit("...")>> ] ],
      final    |-> results[Len(results)].output ])

\* The filter of highConfidenceResponses, with >= in place of >.
isHighConfidence_atLeast(r) == r.confidence >= 75

\* r => r.confidence > 75
isHighConfidence(r) == r.confidence > 75

\* The response of the record with the greatest confidence, in place of the first.
consensusAnswer_highest(highConfidenceResponses) ==
  LET best == CHOOSE i \in 1..Len(highConfidenceResponses) :
                \A j \in 1..Len(highConfidenceResponses) :
                  /\ highConfidenceResponses[j].confidence
                       <= highConfidenceResponses[i].confidence
                  /\ (j < i => highConfidenceResponses[j].confidence
                                < highConfidenceResponses[i].confidence)
  IN  highConfidenceResponses[best].response

\* highConfidenceResponses[0].response
consensusAnswer(highConfidenceResponses) == highConfidenceResponses[1].response

buildConsensus(responses, originalInput) ==
  IF \E i \in 1..Len(responses) : responses[i].response = Absent
  THEN Thrown
  ELSE
    LET highConfidenceResponses == SelectSeq(responses, isHighConfidence)
    IN  Returned(
      [ title     |-> "MULTI-AGENT CONSENSUS ANALYSIS",
        query     |-> Substring(originalInput, 200) \o <<Lit("...")>>,
        consulted |-> Len(responses),
        listing   |->
          [ i \in 1..Len(responses) |->
              [ agent      |-> responses[i].agent,
                confidence |-> responses[i].confidence,
                response   |-> Substring(responses[i].response, 300)
                               \o <<Lit("...")>> ] ],
        heading   |-> IF Len(highConfidenceResponses) > 0
                      THEN "HIGH CONFIDENCE CONSENSUS"
                      ELSE "BALANCED MULTI-PERSPECTIVE VIEW",
        body      |-> IF Len(highConfidenceResponses) > 0
                      THEN [ answer |-> consensusAnswer(highConfidenceResponses) ]
                      ELSE [ perspectives |->
                             [ i \in 1..Len(responses) |->
                               [ agent    |-> responses[i].agent,
                                 response |-> responses[i].response ] ] ] ])

(***************************************************************************)
(* Prompts.                                                                *)
(***************************************************************************)
RECURSIVE JoinLines(_)
\* Array.prototype.join('\n') of a list of strings
JoinLines(parts) ==
  IF parts = <<>> THEN <<>>
  ELSE IF Len(parts) = 1 THEN Head(parts)
       ELSE Head(parts) \o <<Lit("\n")>> \o JoinLines(Tail(parts))

\* Every record instead of the last two.
recentResponses_all(responses) == responses

\* responses.slice(-2)
recentResponses(responses) ==
  SubSeq(responses, Max(1, Len(responses) - 1), Len(responses))

\* `${r.agent}: ${r.response.substring(0, 200)}...`
digest(r) == <<Lit(r.agent), Lit(": ")>> \o Substring(r.response, 200) \o <<Lit("...")>>

\* The context built from the given records.
perspectives(recent) ==
  <<Lit("\n\nPrevious perspectives:\n")>>
  \o JoinLines([ i \in 1..Len(recent) |-> digest(recent[i]) ])
  \o <<Lit("\n\nNow provide your perspective, considering the above:")>>

\* The context added only once two records exist.
debateContext_needsTwo(responses) ==
  IF Len(responses) > 1 THEN perspectives(recentResponses(responses)) ELSE <<>>

debateContext(responses) ==
  IF Len(responses) > 0 THEN perspectives(recentResponses(responses)) ELSE <<>>

\* The prompt of pipeline step i (1-based) given currentInput.
\* The prompt of a later step built from the 100-character preview of the record.
pipelinePrompt_preview(i, currentInput) ==
  IF i = 1
  THEN currentInput
  ELSE <<Lit("Build upon and refine this previous analysis:\n\n")>>
       \o Substring(Interpolate(currentInput), 100) \o <<Lit("...")>>
       \o <<Lit("\n\nProvide additional insights, corrections, or enhancements:")>>

pipelinePrompt(i, currentInput) ==
  IF i = 1
  THEN currentInput
  ELSE <<Lit("Build upon and refine this previous analysis:\n\n")>>
       \o Interpolate(currentInput)
       \o <<Lit("\n\nProvide additional insights, corrections, or enhancements:")>>

(***************************************************************************)
(* State.                                                                  *)
(***************************************************************************)
VARIABLES
  pc,            \* "idle" | "awaiting" (an agent call is in flight) | "returned" | "threw"
  fn,            \* the function the run executes
  mode,          \* the mode argument of runCollaboration ("-" for a direct call)
  input,         \* the input argument
  agents,        \* the agents list (selectedModels)
  rounds,        \* runDebateMode's rounds
  round,         \* runDebateMode's round counter
  idx,           \* position in agents of the call in flight (1-based)
  responses,     \* records of runDebateMode and runConsensusMode
  results,       \* records of runPipelineMode
  currentInput,  \* runPipelineMode's currentInput
  pending,       \* the agent call in flight
  calls,         \* the settled callSingleAgent invocations of the run, in order
  inFlight,      \* the number of callSingleAgent invocations that have not settled
  ret,           \* what the run returned or threw
  scoreLog,      \* every (text, score) pair estimateConfidence produced so far
  sessionManager,\* the SessionManager: currentSession and the session file
  selection,     \* the agent selection step of handleMultiAgentMode
  batch          \* a batch or comparison run: its queries and its results

vars == << pc, fn, mode, input, agents, rounds, round, idx, responses, results,
           currentInput, pending, calls, inFlight, ret, scoreLog, models,
           sessionManager, selection, batch >>

\* The state outside the orchestrator.
outside == << sessionManager, selection, batch >>

\* The value that stands for no session; the ids of sessions start at 1.
null == [id |-> 0, name |-> "", conversations |-> <<>>, totalRequests |-> 0,
         models |-> <<>>]

NoSession == [currentSession |-> null, file |-> null, made |-> 0]
NoSelection == [at |-> "-"]
NoBatch == [at |-> "-"]

NoCall == [agent |-> [provider |-> "", model |-> ""], input |-> <<>>]

\* runDebateMode's default value of rounds
DefaultRounds == 2

Init ==
  /\ pc = "idle"
  /\ fn = "-"
  /\ mode = "-"
  /\ input = <<>>
  /\ agents = <<>>
  /\ rounds = 0
  /\ round = 0
  /\ idx = 0
  /\ responses = <<>>
  /\ results = <<>>
  /\ currentInput = <<>>
  /\ pending = NoCall
  /\ calls = <<>>
  /\ inFlight = 0
  /\ ret = NoValue
  /\ scoreLog = {}
  /\ models = MODELS
  /\ sessionManager = NoSession
  /\ selection = NoSelection
  /\ batch = NoBatch

\* No run is in progress.
Idle == pc = "idle"

\* The invocations in flight once the awaited one, if any, has settled.
settledInFlight == IF pc = "awaiting" THEN inFlight - 1 ELSE inFlight

\* The run ends with the value v, returned or thrown.
Finish(v) ==
  /\ pc' = IF v.kind = "throw" THEN "threw" ELSE "returned"
  /\ ret' = v
  /\ pending' = NoCall
  /\ inFlight' = settledInFlight

\* The run suspends on callSingleAgent(agent, prompt).
Await(agent, prompt) ==
  /\ pc' = "awaiting"
  /\ ret' = NoValue
  /\ pending' = [agent |-> agent, input |-> prompt]
  /\ inFlight' = settledInFlight + 1

\* The log of the settled invocations after the one in flight got the reply.
Settled(reply) ==
  Append(calls, [ agent    |-> pending.agent,
                  input    |-> pending.input,
                  reply    |-> reply,
                  requests |-> requestsSent(pending.agent, reply),
                  result   |-> callSingleAgent(pending.agent, reply) ])

(***************************************************************************)
(* runDebateMode                                                           *)
(***************************************************************************)
EnterDebate(inp, ags, rnds) ==
  /\ fn' = "runDebateMode"
  /\ input' = inp /\ agents' = ags /\ rounds' = rnds
  /\ responses' = <<>> /\ results' = <<>> /\ currentInput' = <<>> /\ calls' = <<>>
  /\ IF rnds >= 1 /\ ags # <<>>
     THEN /\ round' = 1 /\ idx' = 1
          /\ Await(ags[1], inp \o debateContext(<<>>))
     ELSE /\ round' = 0 /\ idx' = 0
          /\ Finish(synthesizeDebateResults(<<>>))
  /\ UNCHANGED <<scoreLog, models>>

\* The loops nested the other way round: all rounds of one agent, then the next.
debateNext_agentMajor(r, i) ==
  IF r < rounds THEN [round |-> r + 1, idx |-> i, done |-> FALSE]
  ELSE IF i < Len(agents) THEN [round |-> 1, idx |-> i + 1, done |-> FALSE]
  ELSE [round |-> r, idx |-> i, done |-> TRUE]

\* The position after (round r, agent i) of for (round ...) for (agent of agents).
debateNext(r, i) ==
  IF i < Len(agents) THEN [round |-> r, idx |-> i + 1, done |-> FALSE]
  ELSE IF r < rounds THEN [round |-> r + 1, idx |-> 1, done |-> FALSE]
  ELSE [round |-> r, idx |-> i, done |-> TRUE]

DebateCallSettles ==
  /\ UNCHANGED outside
  /\ pc = "awaiting" /\ fn = "runDebateMode"
  /\ \E reply \in Replies(pending.agent) :
       LET result == callSingleAgent(pending.agent, reply)
           pushed == IF result.success
                     THEN Append(responses, [ round    |-> round,
                                              agent    |-> agentName(pending.agent),
                                              response |-> result.result ])
                     ELSE responses
           next   == debateNext(round, idx)
       IN  /\ calls' = Settled(reply)
           /\ models' = modelsAfterCall(pending.agent, reply)
           /\ responses' = pushed
           /\ IF result.success /\ result.result = Absent
              THEN \* result.result.length of the log line throws
                   /\ Finish(Thrown)
                   /\ UNCHANGED <<round, idx>>
              ELSE IF next.done
              THEN /\ Finish(synthesizeDebateResults(pushed))
                   /\ UNCHANGED <<round, idx>>
              ELSE /\ round' = next.round /\ idx' = next.idx
                   /\ Await(agents[next.idx], input \o debateContext(pushed))
  /\ UNCHANGED <<fn, mode, input, agents, rounds, results, currentInput, scoreLog>>

(***************************************************************************)
(* runPipelineMode                                                         *)
(***************************************************************************)
EnterPipeline(inp, ags) ==
  /\ fn' = "runPipelineMode"
  /\ input' = inp /\ agents' = ags /\ rounds' = 0 /\ round' = 0
  /\ responses' = <<>> /\ results' = <<>> /\ currentInput' = inp /\ calls' = <<>>
  /\ IF ags # <<>>
     THEN /\ idx' = 1
          /\ Await(ags[1], pipelinePrompt(1, inp))
     ELSE /\ idx' = 0
          /\ Finish(synthesizePipelineResults(<<>>))
  /\ UNCHANGED <<scoreLog, models>>

\* The failed step goes on with the next agent instead of leaving the loop.
PipelineStepFailed_goesOn ==
  /\ UNCHANGED <<results, currentInput>>
  /\ IF idx < Len(agents)
     THEN /\ idx' = idx + 1
          /\ Await(agents[idx + 1], pipelinePrompt(idx + 1, currentInput))
     ELSE /\ idx' = idx
          /\ Finish(synthesizePipelineResults(results))

\* else { ...; break; } and the return after the loop
PipelineStepFailed ==
  /\ Finish(synthesizePipelineResults(results))
  /\ UNCHANGED <<results, currentInput, idx>>

PipelineCallSettles ==
  /\ UNCHANGED outside
  /\ pc = "awaiting" /\ fn = "runPipelineMode"
  /\ \E reply \in Replies(pending.agent) :
     LET result == callSingleAgent(pending.agent, reply) IN
       /\ calls' = Settled(reply)
       /\ models' = modelsAfterCall(pending.agent, reply)
       /\ IF ~result.success
          THEN PipelineStepFailed
          ELSE IF currentInput = Absent
          THEN \* currentInput.substring throws before the push
               /\ Finish(Thrown)
               /\ UNCHANGED <<results, currentInput, idx>>
          ELSE LET pushed == Append(results,
                               [ step   |-> idx,
                                 agent  |-> agentName(pending.agent),
                                 input  |-> Substring(currentInput, 100) \o <<Lit("...")>>,
                                 output |-> result.result ])
               IN  /\ results' = pushed
                   /\ currentInput' = result.result
                   /\ IF idx < Len(agents)
                      THEN /\ idx' = idx + 1
                           /\ Await(agents[idx + 1], pipelinePrompt(idx + 1, result.result))
                      ELSE /\ idx' = idx
                           /\ Finish(synthesizePipelineResults(pushed))
  /\ UNCHANGED <<fn, mode, input, agents, rounds, round, responses, scoreLog>>

(***************************************************************************)
(* runConsensusMode                                                        *)
(***************************************************************************)
\* The calls of all agents issued together, none awaited before the next.
EnterConsensus_allAtOnce(inp, ags) ==
  /\ fn' = "runConsensusMode"
  /\ input' = inp /\ agents' = ags /\ rounds' = 0 /\ round' = 0
  /\ responses' = <<>> /\ results' = <<>> /\ currentInput' = <<>> /\ calls' = <<>>
  /\ IF ags # <<>>
     THEN /\ idx' = 1
          /\ pc' = "awaiting" /\ ret' = NoValue
          /\ pending' = [agent |-> ags[1], input |-> inp]
          /\ inFlight' = Len(ags)
     ELSE /\ idx' = 0
          /\ Finish(buildConsensus(<<>>, inp))
  /\ UNCHANGED <<scoreLog, models>>

EnterConsensus(inp, ags) ==
  /\ fn' = "runConsensusMode"
  /\ input' = inp /\ agents' = ags /\ rounds' = 0 /\ round' = 0
  /\ responses' = <<>> /\ results' = <<>> /\ currentInput' = <<>> /\ calls' = <<>>
  /\ IF ags # <<>>
     THEN /\ idx' = 1
          /\ Await(ags[1], inp)
     ELSE /\ idx' = 0
          /\ Finish(buildConsensus(<<>>, inp))
  /\ UNCHANGED <<scoreLog, models>>

ConsensusCallSettles ==
  /\ UNCHANGED outside
  /\ pc = "awaiting" /\ fn = "runConsensusMode"
  /\ \E reply \in Replies(pending.agent) :
     LET result == callSingleAgent(pending.agent, reply) IN
       /\ calls' = Settled(reply)
       /\ models' = modelsAfterCall(pending.agent, reply)
       /\ IF result.success /\ result.result = Absent
          THEN \* estimateConfidence: response.includes throws before the push
               /\ Finish(Thrown)
               /\ UNCHANGED <<responses, idx, scoreLog>>
          ELSE LET pushed == IF result.success
                             THEN Append(responses,
                                    [ agent      |-> agentName(pending.agent),
                                      response   |-> result.result,
                                      confidence |-> estimateConfidence(result.result) ])
                             ELSE responses
               IN  /\ responses' = pushed
                   /\ scoreLog' = IF result.success
                                  THEN scoreLog \cup
                                       {<<result.result, estimateConfidence(result.result)>>}
                                  ELSE scoreLog
                   /\ IF idx < Len(agents)
                      THEN /\ idx' = idx + 1
                           /\ Await(agents[idx + 1], input)
                      ELSE /\ idx' = idx
                           /\ Finish(buildConsensus(pushed, input))
  /\ UNCHANGED <<fn, mode, input, agents, rounds, round, results, currentInput>>

(***************************************************************************)
(* runCollaboration                                                        *)
(***************************************************************************)
\* default: return await this.callSingleAgent(selectedModels[0], input)
EnterDefault(inp, ags) ==
  /\ fn' = "callSingleAgent"
  /\ input' = inp /\ agents' = ags /\ rounds' = 0 /\ round' = 0
  /\ responses' = <<>> /\ results' = <<>> /\ currentInput' = <<>> /\ calls' = <<>>
  /\ IF ags # <<>>
     THEN /\ idx' = 1
          /\ Await(ags[1], inp)
     ELSE \* agent.provider of undefined throws
          /\ idx' = 0
          /\ Finish(Thrown)
  /\ UNCHANGED <<scoreLog, models>>

DefaultCallSettles ==
  /\ UNCHANGED outside
  /\ pc = "awaiting" /\ fn = "callSingleAgent"
  /\ \E reply \in Replies(pending.agent) :
     LET result == callSingleAgent(pending.agent, reply) IN
       /\ calls' = Settled(reply)
       /\ models' = modelsAfterCall(pending.agent, reply)
       /\ Finish([kind |-> "result", result |-> result])
  /\ UNCHANGED <<fn, mode, input, agents, rounds, round, idx, responses, results,
                 currentInput, scoreLog>>

runCollaboration ==
  /\ Idle
  /\ UNCHANGED outside
  /\ \E inp \in Inputs, m \in Modes, selectedModels \in AgentLists :
       /\ mode' = m
       /\ CASE m = "Debate"    -> EnterDebate(inp, selectedModels, DefaultRounds)
            [] m = "Pipeline"  -> EnterPipeline(inp, selectedModels)
            [] m = "Consensus" -> EnterConsensus(inp, selectedModels)
            [] OTHER           -> EnterDefault(inp, selectedModels)

\* runDebateMode called with an explicit rounds argument.
runDebateMode ==
  /\ Idle
  /\ UNCHANGED outside
  /\ \E inp \in Inputs, ags \in AgentLists, rnds \in 1..MaxRounds :
       /\ mode' = "-"
       /\ EnterDebate(inp, ags, rnds)

\* The caller has taken the returned value or the exception: the locals of the
\* run are gone and the orchestrator object is ready for another call.
Release ==
  /\ pc \in {"returned", "threw"}
  /\ pc' = "idle"
  /\ fn' = "-" /\ mode' = "-" /\ input' = <<>> /\ agents' = <<>>
  /\ rounds' = 0 /\ round' = 0 /\ idx' = 0
  /\ responses' = <<>> /\ results' = <<>> /\ currentInput' = <<>>
  /\ pending' = NoCall /\ calls' = <<>> /\ ret' = NoValue
  /\ UNCHANGED <<scoreLog, inFlight, models, outside>>

\* buildConsensus called on a given record list.
buildConsensusCall ==
  /\ Idle
  /\ \E recs \in SampleRecordLists, inp \in Inputs :
       /\ fn' = "buildConsensus" /\ mode' = "-"
       /\ input' = inp /\ responses' = recs
       /\ Finish(buildConsensus(recs, inp))
  /\ UNCHANGED <<agents, rounds, round, idx, results, currentInput, calls, scoreLog,
                 models, outside>>

Next ==
  \/ runCollaboration
  \/ buildConsensusCall
  \/ runDebateMode
  \/ DebateCallSettles
  \/ PipelineCallSettles
  \/ ConsensusCallSettles
  \/ DefaultCallSettles
  \/ Release

Spec == Init /\ [][Next]_vars

TypeOK ==
  /\ pc \in {"idle", "awaiting", "returned", "threw"}
  /\ idx \in 0..Cardinality(AgentPool)

(***************************************************************************)
(* estimateConfidence called on a given text.                              *)
(***************************************************************************)
InitEstimate ==
  /\ pc = "idle"
  /\ fn = "estimateConfidence"
  /\ mode = "-"
  /\ input \in ScoredTexts
  /\ agents = <<>>
  /\ rounds = 0
  /\ round = 0
  /\ idx = 0
  /\ responses = <<>>
  /\ results = <<>>
  /\ currentInput = <<>>
  /\ pending = NoCall
  /\ calls = <<>>
  /\ inFlight = 0
  /\ ret = NoValue
  /\ scoreLog = {}
  /\ models = MODELS
  /\ sessionManager = NoSession
  /\ selection = NoSelection
  /\ batch = NoBatch

estimateConfidenceCall ==
  /\ pc = "idle" /\ fn = "estimateConfidence"
  /\ pc' = "returned"
  /\ ret' = [kind |-> "score", score |-> estimateConfidence(input)]
  /\ scoreLog' = {<<input, estimateConfidence(input)>>}
  /\ UNCHANGED <<fn, mode, input, agents, rounds, round, idx, responses, results,
                 currentInput, pending, calls, inFlight, models, outside>>

NextEstimate == estimateConfidenceCall

SpecEstimate == InitEstimate /\ [][NextEstimate]_vars

(***************************************************************************)
(* Properties.                                                             *)
(***************************************************************************)
Ended == pc \in {"returned", "threw"}

\* The settled calls of the run that succeeded, in call order.
successfulCalls == SelectSeq(calls, LAMBDA c : c.result.success)

\* C1: in runPipelineMode, once the call of step k has failed it is the last
\* call of the run (no call for steps k+1..n is made or in flight) and the run
\* holds exactly the k-1 records of steps 1..k-1; the calls go to the agents in
\* list order.
C1_PipelineHaltsOnFirstFailure ==
  fn = "runPipelineMode" =>
    /\ \A j \in 1..Len(calls) : calls[j].agent = agents[j]
    /\ \A k \in 1..Len(calls) :
         ~calls[k].result.success =>
           /\ k = Len(calls)
           /\ Ended
           /\ Len(results) = k - 1
           /\ \A j \in 1..(k - 1) : results[j].step = j

\* A 3-agent pipeline whose second call failed: one record, the third agent never called.
C1_Witness ==
  /\ fn = "runPipelineMode" /\ Len(agents) = 3
  /\ Len(calls) = 2 /\ calls[1].result.success /\ ~calls[2].result.success
  /\ Len(results) = 1 /\ pc = "returned"

\* C2: a run of runCollaboration in one of the three modes over a non-empty
\* agents list, in which every successful call delivered a text, never ends
\* with an exception: whatever calls failed, it returns a report.
C2_FailedCallsNeverThrow ==
  ( /\ mode \in {"Debate", "Pipeline", "Consensus"}
    /\ agents # <<>>
    /\ \A i \in 1..Len(calls) :
         calls[i].result.success => calls[i].result.result # Absent )
  => ( /\ pc # "threw"
       /\ pc = "returned" => ret.kind = "report" )

\* C3: runCollaboration with a mode outside {Debate, Pipeline, Consensus} makes
\* no agent call and ends with an error.
C3_UnknownModeIsRejected ==
  mode = "Unknown" =>
    /\ pc # "awaiting"
    /\ calls = <<>>
    /\ Ended => ret.kind = "throw"

\* C4: runCollaboration with an empty agents list ends with an error of the
\* orchestrator itself: no strategy executor or synthesizer has run.
C4_EmptyAgentsIsRejected ==
  (mode \in Modes /\ agents = <<>>) =>
    /\ pc = "threw"
    /\ fn \notin {"runDebateMode", "runPipelineMode", "runConsensusMode"}

\* C5: a run of runDebateMode with rounds >= 1 ends after exactly
\* rounds x n calls, with as many records as calls succeeded.
C5_DebateCallsAndRecords ==
  (fn = "runDebateMode" /\ Ended /\ rounds >= 1) =>
    /\ Len(calls) = rounds * Len(agents)
    /\ Len(responses) = Len(successfulCalls)
    /\ Len(responses) <= rounds * Len(agents)

\* The report buildConsensus returned for the records in responses.
ConsensusReported ==
  /\ fn \in {"buildConsensus", "runConsensusMode"}
  /\ pc = "returned"

\* C6: buildConsensus gives the single consensus answer exactly when some
\* record has a confidence above 75; otherwise it gives the balanced view that
\* lists every response with its agent.
C6_ConsensusBranchBoundary ==
  ConsensusReported =>
    IF \E i \in 1..Len(responses) : responses[i].confidence > 75
    THEN /\ ret.report.heading = "HIGH CONFIDENCE CONSENSUS"
         /\ DOMAIN ret.report.body = {"answer"}
         /\ \E i \in 1..Len(responses) :
              /\ responses[i].confidence > 75
              /\ ret.report.body.answer = responses[i].response
    ELSE /\ ret.report.heading = "BALANCED MULTI-PERSPECTIVE VIEW"
         /\ ret.report.body.perspectives =
              [ i \in 1..Len(responses) |->
                  [agent |-> responses[i].agent, response |-> responses[i].response] ]

\* A record set whose greatest confidence is 76 got the single answer.
C6_Witness ==
  /\ fn = "buildConsensus" /\ pc = "returned"
  /\ Len(responses) = 2
  /\ responses[1].confidence = 75 /\ responses[2].confidence = 76
  /\ ret.report.heading = "HIGH CONFIDENCE CONSENSUS"

\* C7: the answer buildConsensus promotes is the response of the first record,
\* in record order, whose confidence is above 75.
C7_FirstAboveThresholdWins ==
  (ConsensusReported /\ \E i \in 1..Len(responses) : responses[i].confidence > 75) =>
    LET first == CHOOSE i \in 1..Len(responses) :
                   /\ responses[i].confidence > 75
                   /\ \A j \in 1..(i - 1) : responses[j].confidence <= 75
    IN  ret.report.body.answer = responses[first].response

\* The first record above the threshold is promoted although a later record,
\* with another response, scores higher.
C7_Witness ==
  /\ fn = "buildConsensus" /\ pc = "returned"
  /\ Len(responses) = 3
  /\ responses[1].confidence = 60
  /\ responses[2].confidence = 76
  /\ responses[3].confidence = 80
  /\ responses[2].response # responses[3].response
  /\ ret.report.body.answer = responses[2].response

\* C8: a run of runConsensusMode ends after one call per agent of the list, in
\* list order, each with the unmodified input.
C8_ConsensusCallsEveryAgentOnce ==
  (fn = "runConsensusMode" /\ Ended) =>
    /\ Len(calls) = Len(agents)
    /\ \A i \in 1..Len(calls) : calls[i].agent = agents[i] /\ calls[i].input = input

\* C9: the records of runConsensusMode are the successful calls: one record
\* per call that succeeded, in call order, attributed to the agent called.
C9_ConsensusRecordsAreSuccessfulCalls ==
  fn = "runConsensusMode" =>
    /\ Len(responses) = Len(successfulCalls)
    /\ \A i \in 1..Len(responses) :
         i <= Len(successfulCalls) =>
           responses[i].agent = agentName(successfulCalls[i].agent)

\* C10: every confidence in a consensus record is an integer of 25..95, and a
\* text has one score only: the pairs (text, score) produced so far, in this
\* and in earlier runs, form a function, to which the records of the run belong.
C10_ConfidenceRangeAndDeterminism ==
  /\ \A p \in scoreLog : p[2] \in 25..95
  /\ \A p, q \in scoreLog : p[1] = q[1] => p[2] = q[2]
  /\ fn = "runConsensusMode" =>
       \A i \in 1..Len(responses) :
         /\ responses[i].confidence \in 25..95
         /\ <<responses[i].response, responses[i].confidence>> \in scoreLog

\* Two records of one run hold the same text with the clamped score 25, after
\* an earlier run scored a text this run has not.
C10_Witness ==
  /\ fn = "runConsensusMode"
  /\ Len(responses) = 2
  /\ responses[1].response = responses[2].response
  /\ responses[1].confidence = 25 /\ responses[2].confidence = 25
  /\ \E p \in scoreLog : \A i \in 1..Len(responses) : responses[i].response # p[1]

\* The words of a text, the number of their characters (each word is followed
\* by a blank), and whether the text holds a word or a two-word phrase.
wordsOf(t) == [ i \in 1..Len(t) |-> t[i].w ]

RECURSIVE charCount(_)
charCount(ws) ==
  IF ws = <<>> THEN 0
  ELSE (IF Head(ws) = "passage" THEN 800 ELSE Len(Head(ws)) + 1) + charCount(Tail(ws))

has(ws, w) == \E i \in 1..Len(ws) : ws[i] = w
hasPhrase(ws, w1, w2) == \E i \in 1..(Len(ws) - 1) : ws[i] = w1 /\ ws[i + 1] = w2

Indicator(b) == IF b THEN 1 ELSE 0

\* C11: estimateConfidence(text) is 50 plus 15, 10, 10, 10 for the four positive
\* markers and minus 10, 15, 5 for the three negative ones, each counted once
\* wherever and however often its words occur, clamped to 25..95; the length
\* bonus needs more than 800 characters.
C11_ConfidenceFormula ==
  (fn = "estimateConfidence" /\ pc = "returned") =>
    LET ws  == wordsOf(input)
        sum == 50
               + 15 * Indicator(has(ws, "definitely") \/ has(ws, "clearly"))
               + 10 * Indicator(has(ws, "evidence") \/ has(ws, "data"))
               + 10 * Indicator(has(ws, "research") \/ has(ws, "studies"))
               + 10 * Indicator(charCount(ws) > 800)
               - 10 * Indicator(has(ws, "might") \/ has(ws, "possibly"))
               - 15 * Indicator(has(ws, "uncertain") \/ hasPhrase(ws, "not", "sure"))
               - 5  * Indicator(hasPhrase(ws, "I", "think") \/ has(ws, "probably"))
    IN  ret.score = (IF sum < 25 THEN 25 ELSE IF sum > 95 THEN 95 ELSE sum)

\* A text of exactly 800 characters and no marker: no length bonus.
C11_Witness ==
  /\ fn = "estimateConfidence" /\ pc = "returned"
  /\ wordsOf(input) = <<"passage">>
  /\ charCount(wordsOf(input)) = 800
  /\ ret.score = 50

(***************************************************************************)
(* The prompts of runDebateMode and the order of its records.              *)
(***************************************************************************)
\* The invocations of the run in call order: the settled ones, then the one in
\* flight.
issued ==
  [ j \in 1..(Len(calls) + inFlight) |->
      IF j <= Len(calls) THEN [agent |-> calls[j].agent, input |-> calls[j].input]
      ELSE pending ]

\* The round of the j-th invocation of a debate over the agents of the run.
callRound(j) == ((j - 1) \div Len(agents)) + 1

\* The number of records that exist when the j-th invocation is issued.
recordsBefore(j) ==
  Cardinality({ i \in 1..(j - 1) : i <= Len(calls) /\ calls[i].result.success })

\* The text t starts with the text head followed by the given piece.
startsWith(t, head, piece) ==
  /\ Len(t) > Len(head)
  /\ SubSeq(t, 1, Len(head)) = head
  /\ t[Len(head) + 1] = Lit(piece)

\* C12, as the specification states it: in runDebateMode every call of round 1
\* receives the original input alone, and every call of a round >= 2 receives
\* the original input followed by the context of previous perspectives.
C12_ContextFromRoundTwo ==
  fn = "runDebateMode" =>
    \A j \in 1..Len(issued) :
      IF callRound(j) = 1
      THEN issued[j].input = input
      ELSE startsWith(issued[j].input, input, "\n\nPrevious perspectives:\n")

\* C12, amended: in runDebateMode a call receives the original input alone
\* exactly when no record exists at the time of the call (the first call, and
\* every call issued while all earlier calls have failed, in any round);
\* otherwise it receives the original input followed by the context of
\* previous perspectives built from the two most recent records, and that is so
\* within round 1 as well.
C12_ContextWhenRecordsExist ==
  fn = "runDebateMode" =>
    \A j \in 1..Len(issued) :
      LET before == SubSeq(responses, 1, recordsBefore(j))
      IN  IF before = <<>>
          THEN issued[j].input = input
          ELSE /\ startsWith(issued[j].input, input, "\n\nPrevious perspectives:\n")
               /\ issued[j].input
                    = input \o perspectives(SubSeq(before, Max(1, Len(before) - 1),
                                                   Len(before)))

\* The second call of round 1 carries the record of the first.
C12_Witness ==
  /\ fn = "runDebateMode" /\ Len(agents) = 2 /\ rounds = 2
  /\ Len(issued) = 4
  /\ calls[1].result.success /\ ~calls[2].result.success
  /\ issued[2].input # input
  /\ issued[4].input # input

\* The position of the agent of a record in the agent list of the run.
agentPosition(name) == CHOOSE k \in 1..Len(agents) : agentName(agents[k]) = name

\* C13: the records of runDebateMode are round-major and, within a round, in
\* agent-list order: along the sequence the round never decreases, two records
\* of one round stand in the order of their agents in the list, and no (round,
\* agent position) pair has two records.
C13_RecordsRoundMajor ==
  fn = "runDebateMode" =>
    /\ \A i \in 1..Len(responses) :
         /\ responses[i].round \in 1..rounds
         /\ \E k \in 1..Len(agents) : agentName(agents[k]) = responses[i].agent
    /\ \A i, j \in 1..Len(responses) :
         i < j =>
           /\ responses[i].round <= responses[j].round
           /\ responses[i].round = responses[j].round =>
                agentPosition(responses[i].agent) < agentPosition(responses[j].agent)

\* Two rounds over three agents with a failure in each round.
C13_Witness ==
  /\ fn = "runDebateMode" /\ pc = "returned" /\ Len(agents) = 3
  /\ Len(responses) = 4
  /\ responses[2].round = 1 /\ responses[3].round = 2
  /\ responses[1].agent = responses[3].agent

(***************************************************************************)
(* The prompts of runPipelineMode and the reports of the synthesizers.     *)
(***************************************************************************)
\* C14: in runPipelineMode the call of step 1 receives the raw input unchanged,
\* and the call of every step k > 1 that is reached receives the refinement
\* prompt that embeds the whole output recorded for step k-1 (a null output as
\* the text "null"): neither the original input nor the 100-character preview
\* of the record.
C14_PipelinePrompts ==
  fn = "runPipelineMode" =>
    \A k \in 1..Len(issued) :
      IF k = 1
      THEN issued[k].input = input
      ELSE /\ k - 1 <= Len(results)
           /\ issued[k].input
                = <<Lit("Build upon and refine this previous analysis:\n\n")>>
                  \o Interpolate(results[k - 1].output)
                  \o <<Lit("\n\nProvide additional insights, corrections, or enhancements:")>>

\* Step 2 is called with the 825 characters of the output of step 1.
C14_Witness ==
  /\ fn = "runPipelineMode"
  /\ Len(issued) >= 2
  /\ results[1].output = TextHigh
  /\ Length(results[1].output) > 100
  /\ Length(issued[2].input) > Length(results[1].output)

\* C15: the report of a pipeline run with completed steps renders every
\* completed step once, in step order, and ends with the whole output of the last
\* completed step; when the middle agent of a 3-agent pipeline fails, the report
\* has exactly one completed step and its final output is the output of step 1.
C15_PipelineSynthesis ==
  fn = "runPipelineMode" /\ Ended /\ results # <<>> =>
    /\ pc = "returned"
    /\ ret.report.executed = Len(results)
    /\ Len(ret.report.steps) = Len(results)
    /\ \A i \in 1..Len(results) :
         /\ ret.report.steps[i].step = i
         /\ ret.report.steps[i].agent = results[i].agent
    /\ ret.report.final = results[Len(results)].output
    /\ ( Len(agents) = 3 /\ Len(calls) = 2 /\ ~calls[2].result.success ) =>
         /\ ret.report.executed = 1
         /\ ret.report.final = calls[1].result.result

\* The records of one agent, in record order.
recordsOf(a) == SelectSeq(responses, LAMBDA r : r.agent = a)

\* C16: the report of a debate run has exactly one section per distinct agent
\* identity of the records; the section shows the last response among the
\* records of that agent (its first 400 characters) with an iteration count
\* equal to the number of those records, and the closing total is the number of
\* records; with 2 agents, 2 rounds and all 4 calls succeeding, the run reports
\* 4 records in 2 sections.
C16_DebateSynthesis ==
  fn = "runDebateMode" =>
    /\ pc = "returned" =>
         LET sections == ret.report.sections
         IN  /\ { sections[i].agent : i \in 1..Len(sections) }
                  = { responses[i].agent : i \in 1..Len(responses) }
             /\ \A i, j \in 1..Len(sections) :
                  sections[i].agent = sections[j].agent => i = j
             /\ \A i \in 1..Len(sections) :
                  LET own == recordsOf(sections[i].agent)
                  IN  /\ sections[i].iterations = Len(own)
                      /\ sections[i].last
                           = Substring(own[Len(own)].response, 400) \o <<Lit("...")>>
             /\ ret.report.total = Len(responses)
    /\ ( /\ Len(agents) = 2 /\ rounds = 2 /\ Ended /\ Len(calls) = 4
         /\ \A j \in 1..4 : calls[j].result.success ) =>
         /\ pc = "returned"
         /\ Len(responses) = 4
         /\ Len(ret.report.sections) = 2

\* C17: when every call of a consensus run has failed, so that no record
\* exists, the run returns a report that says that no responses were collected
\* and presents neither a consensus answer nor a multi-perspective view.
C17_EmptyConsensusIsReported ==
  ( /\ fn = "runConsensusMode" /\ Ended
    /\ Len(calls) > 0
    /\ \A j \in 1..Len(calls) : ~calls[j].result.success ) =>
    /\ pc = "returned"
    /\ ret.report.heading \notin { "HIGH CONFIDENCE CONSENSUS",
                                    "BALANCED MULTI-PERSPECTIVE VIEW" }

(***************************************************************************)
(* The agent calls of a run.                                               *)
(***************************************************************************)
\* C18: within one run at most one agent call is in flight: a call is in
\* flight exactly while the run is suspended on it, and every call issued
\* before it has settled.
C18_OneCallInFlight ==
  fn \in {"runDebateMode", "runPipelineMode", "runConsensusMode"} =>
    /\ inFlight \in {0, 1}
    /\ inFlight = 1 <=> pc = "awaiting"
    /\ pc = "awaiting" => Len(calls) = Len(issued) - 1

\* The third call of a consensus run is in flight and the two before it have
\* settled, one of them as a failure.
C18_Witness ==
  /\ fn = "runConsensusMode" /\ pc = "awaiting"
  /\ inFlight = 1
  /\ Len(calls) = 2
  /\ calls[1].result.success /\ ~calls[2].result.success

\* C19: every callSingleAgent settles with a result, and every lookup,
\* transport or parse failure settles with success = false and an error text.
C19_FailuresAreReturned ==
  \A j \in 1..Len(calls) :
    calls[j].reply.kind \in {"no request", "network error", "malformed body"} =>
      /\ ~calls[j].result.success
      /\ "error" \in DOMAIN calls[j].result

\* C20: every callSingleAgent for an agent with a known provider sends exactly
\* one request, whether it fails or not, and no executor repeats a call: the
\* j-th call of a pipeline or consensus run goes to the j-th agent, a debate
\* calls each agent once per round, and the default branch calls once.
C20_OneRequestNoRetry ==
  /\ \A j \in 1..Len(calls) :
       calls[j].agent.provider \in MODELS => calls[j].requests = 1
  /\ fn \in {"runPipelineMode", "runConsensusMode", "callSingleAgent"} =>
       /\ Len(issued) <= Len(agents)
       /\ fn = "callSingleAgent" => Len(issued) <= 1
       /\ \A j \in 1..Len(issued) : issued[j].agent = agents[j]
  /\ fn = "runDebateMode" =>
       /\ Len(issued) <= rounds * Len(agents)
       /\ \A j \in 1..Len(issued) :
            issued[j].agent = agents[((j - 1) % Len(agents)) + 1]

\* A request has failed and the run has gone on to the next agent.
C20_Witness ==
  /\ fn = "runConsensusMode"
  /\ Len(calls) >= 2
  /\ calls[1].reply.kind = "network error"
  /\ calls[1].requests = 1
  /\ calls[2].agent # calls[1].agent

(***************************************************************************)
(* The value runCollaboration hands to its caller.                         *)
(***************************************************************************)
\* The records the executor of the run has built.
records == IF fn = "runPipelineMode" THEN results ELSE responses

\* C21: the value a collaboration run returns holds the synthesized report
\* together with the whole ordered sequence of records of the executor and the
\* input of the run.
C21_ReportCarriesRecordsAndInput ==
  ( /\ fn \in {"runDebateMode", "runPipelineMode", "runConsensusMode"}
    /\ mode # "-"
    /\ Len(calls) > 0
    /\ pc = "returned" ) =>
    /\ "report" \in DOMAIN ret
    /\ "records" \in DOMAIN ret /\ ret.records = records
    /\ "input" \in DOMAIN ret /\ ret.input = input

(***************************************************************************)
(* A run computed again from its arguments and the replies of its calls.   *)
(***************************************************************************)
RECURSIVE debateRecordsOf(_)
\* The records of a debate after its first j calls.
debateRecordsOf(j) ==
  IF j = 0 THEN <<>>
  ELSE IF calls[j].result.success
       THEN Append(debateRecordsOf(j - 1),
                   [ round    |-> callRound(j),
                     agent    |-> agentName(calls[j].agent),
                     response |-> calls[j].result.result ])
       ELSE debateRecordsOf(j - 1)

RECURSIVE pipelineRecordsOf(_)
\* The records of a pipeline after its first j calls.
pipelineRecordsOf(j) ==
  IF j = 0 THEN <<>>
  ELSE LET given == IF j = 1 THEN input ELSE calls[j - 1].result.result
       IN  IF calls[j].result.success /\ given # Absent
           THEN Append(pipelineRecordsOf(j - 1),
                       [ step   |-> j,
                         agent  |-> agentName(calls[j].agent),
                         input  |-> Substring(given, 100) \o <<Lit("...")>>,
                         output |-> calls[j].result.result ])
           ELSE pipelineRecordsOf(j - 1)

RECURSIVE consensusRecordsOf(_)
\* The records of a consensus run after its first j calls.
consensusRecordsOf(j) ==
  IF j = 0 THEN <<>>
  ELSE IF calls[j].result.success /\ calls[j].result.result # Absent
       THEN Append(consensusRecordsOf(j - 1),
                   [ agent      |-> agentName(calls[j].agent),
                     response   |-> calls[j].result.result,
                     confidence |-> estimateConfidence(calls[j].result.result) ])
       ELSE consensusRecordsOf(j - 1)

\* Some call of the run has settled as a success without a text.
absentText == \E j \in 1..Len(calls) :
                calls[j].result.success /\ calls[j].result.result = Absent

\* What a run with the arguments and the call log of this one returns or throws.
replayed ==
  CASE fn = "runDebateMode" ->
         IF absentText THEN Thrown
         ELSE synthesizeDebateResults(debateRecordsOf(Len(calls)))
    [] fn = "runPipelineMode" ->
         synthesizePipelineResults(pipelineRecordsOf(Len(calls)))
    [] fn = "runConsensusMode" ->
         IF absentText THEN Thrown
         ELSE buildConsensus(consensusRecordsOf(Len(calls)), input)
    [] OTHER ->
         IF calls = <<>> THEN Thrown ELSE [kind |-> "result", result |-> calls[1].result]

Executors == {"runDebateMode", "runPipelineMode", "runConsensusMode", "callSingleAgent"}

\* C22: a run leaves no state behind in the orchestrator.  this.models is
\* never modified; a run starts without records and never changes its agents
\* list or its input; and whatever runs came before, the value a run ends with
\* is the one computed from its function, input, agents, rounds and the replies
\* of its calls alone.
C22_RunsLeaveNoState ==
  /\ [](models = MODELS)
  /\ [](fn \in Executors /\ Ended => ret = replayed)
  /\ [][ pc = "idle" /\ fn' \in Executors /\ pc' = "awaiting"
           => responses' = <<>> /\ results' = <<>> /\ calls' = <<>> ]_vars
  /\ [][ pc # "idle" /\ pc' # "idle" => agents' = agents /\ input' = input ]_vars

\* A debate has ended after an earlier consensus run, whose scores are on
\* record.
C22_Witness ==
  /\ fn = "runDebateMode" /\ pc = "returned"
  /\ Len(calls) >= 2
  /\ scoreLog # {}

(***************************************************************************)
(* The context of a debate call.                                           *)
(***************************************************************************)
\* One line of the context: the agent of the record, then at most the first
\* 200 characters of its response.
contextLine(r) ==
  <<Lit(r.agent), Lit(": ")>> \o Substring(r.response, 200) \o <<Lit("...")>>

\* The longest context two records can make.
ContextLengthLimit ==
  LET longestName == CHOOSE n \in { Len(agentName(a)) : a \in AgentPool } :
                       \A a \in AgentPool : Len(agentName(a)) <= n
  IN  Len("\n\nPrevious perspectives:\n")
      + 2 * (longestName + Len(": ") + 200 + Len("..."))
      + Len("\n")
      + Len("\n\nNow provide your perspective, considering the above:")

\* C23: a debate call that carries context carries one line for each of the two
\* most recently appended records at the time of the call (one line when a single
\* record exists), oldest first, each made of the agent identity and at most
\* the first 200 characters of the response; no older record is in it and its
\* size stays under a bound that does not depend on the number of rounds.
C23_ContextIsLastTwoRecords ==
  fn = "runDebateMode" =>
    \A j \in 1..Len(issued) :
      LET before == SubSeq(responses, 1, recordsBefore(j))
          n      == Len(before)
          lines  == IF n = 1
                    THEN contextLine(before[1])
                    ELSE contextLine(before[n - 1]) \o <<Lit("\n")>>
                         \o contextLine(before[n])
      IN  n > 0 =>
            /\ issued[j].input
                 = input \o <<Lit("\n\nPrevious perspectives:\n")>> \o lines
                   \o <<Lit("\n\nNow provide your perspective, considering the above:")>>
            /\ Length(issued[j].input) - Length(input) <= ContextLengthLimit

\* A call issued when three records exist, the last of them longer than 200
\* characters.
C23_Witness ==
  /\ fn = "runDebateMode"
  /\ \E j \in 1..Len(issued) :
       /\ recordsBefore(j) >= 3
       /\ Length(responses[recordsBefore(j)].response) > 200
       /\ Length(issued[j].input) - Length(input) < Length(responses[recordsBefore(j)].response)

(***************************************************************************)
(* The agent selection of handleMultiAgentMode.                            *)
(***************************************************************************)
\* The orchestrator's own state, which the steps outside it leave alone.
core == << pc, fn, mode, input, agents, rounds, round, idx, responses, results,
           currentInput, pending, calls, inFlight, ret, scoreLog, models >>

\* No run of the orchestrator has started.
coreAtRest ==
  /\ pc = "idle" /\ fn = "-" /\ mode = "-" /\ input = <<>> /\ agents = <<>>
  /\ rounds = 0 /\ round = 0 /\ idx = 0
  /\ responses = <<>> /\ results = <<>> /\ currentInput = <<>>
  /\ pending = NoCall /\ calls = <<>> /\ inFlight = 0
  /\ ret = NoValue /\ scoreLog = {} /\ models = MODELS

\* Object.entries(MODELS): the providers in the order of the literal.
ProviderOrder == <<"openai", "ollama", "openrouter">>

\* The names the ollama server lists, all different.
OllamaNames == [ i \in 1..MaxOllamaModels |-> "local-model-" \o ToString(i) ]

\* MODELS[provider].models (ids only), ollama having listed its first k names.
modelIds(provider, k) ==
  CASE provider = "openai" ->
         <<"gpt-3.5-turbo", "gpt-4o-mini", "gpt-4-turbo", "gpt-4o">>
    [] provider = "openrouter" ->
         <<"google/gemini-2.0-flash-001", "google/gemini-pro", "google/gemini-1.5-flash",
           "openai/gpt-3.5-turbo", "meta-llama/llama-3-8b-instruct",
           "mistralai/mistral-7b-instruct", "openai/gpt-4o-mini", "openai/gpt-4o",
           "meta-llama/llama-3-70b-instruct", "custom">>
    [] OTHER -> SubSeq(OllamaNames, 1, k)

\* model.models.slice(0, 2) as agents of the provider
firstTwo(provider, k) ==
  LET ids == modelIds(provider, k)
  IN  [ i \in 1..Min(2, Len(ids)) |-> [provider |-> provider, model |-> ids[i]] ]

\* availableAgents, given the providers that have a key and the number of
\* ollama models.
availableAgents(keys, k) ==
  LET part(i) == IF ProviderOrder[i] \in keys \/ ProviderOrder[i] = "ollama"
                 THEN firstTwo(ProviderOrder[i], k)
                 ELSE <<>>
  IN  part(1) \o part(2) \o part(3)

\* What the user may type at a prompt.
Typed == {"", "1", "2", " 3 ", "5", "7", "0", "-1", "2nd", "x", "y", "Y ", "n", "N", "no"}

\* choice.trim()
trimmed(t) == CASE t = " 3 " -> "3" [] t = "Y " -> "Y" [] OTHER -> t

\* String.prototype.toLowerCase
lowered(t) == CASE t = "Y" -> "y" [] t = "N" -> "n" [] OTHER -> t

\* parseInt of a trimmed answer; NaN when it does not start with a number.
parseInt(t) ==
  CASE t \in {"1", "2", "3", "5", "7", "0"} ->
         [nan |-> FALSE, n |-> CHOOSE n \in 0..9 : ToString(n) = t]
    [] t = "-1"  -> [nan |-> FALSE, n |-> 0 - 1]
    [] t = "2nd" -> [nan |-> FALSE, n |-> 2]
    [] OTHER     -> [nan |-> TRUE, n |-> 0]

\* selectFromList(items, prompt, 0) when the user types t
selectFromList(items, t) ==
  LET parsed        == parseInt(trimmed(t))
      selectedIndex == parsed.n - 1
  IN  IF parsed.nan \/ selectedIndex < 0 \/ selectedIndex >= Len(items)
      THEN 0
      ELSE selectedIndex

\* The agents offered when nothing is filtered out.
remainingAgents_all(available, selected) == available

\* availableAgents.filter(a => !selectedAgents.some(sa => same provider and model))
remainingAgents(available, selected) ==
  SelectSeq(available, LAMBDA a : \A i \in 1..Len(selected) : selected[i] # a)

\* Math.min(3, availableAgents.length)
selectionLimit(available) == Min(3, Len(available))

InitSelect ==
  /\ coreAtRest
  /\ sessionManager = NoSession
  /\ batch = NoBatch
  /\ selection = NoSelection

\* handleMultiAgentMode up to its first question about agents.
SelectionBegins ==
  /\ selection.at = "-"
  /\ \E keys \in SUBSET {"openai", "openrouter"}, k \in 0..MaxOllamaModels :
       LET available == availableAgents(keys, k)
       IN  selection' = [ at              |-> IF selectionLimit(available) > 0
                                              THEN "choose" ELSE "done",
                          availableAgents |-> available,
                          selectedAgents  |-> <<>>,
                          i               |-> 0 ]
  /\ UNCHANGED <<core, sessionManager, batch>>

\* The answer to 'Add another agent?'.
AddMoreAnswered ==
  /\ selection.at = "ask"
  /\ \E t \in Typed :
       LET addMore == lowered(trimmed(t))
       IN  selection' =
             [ selection EXCEPT
                 !.at = IF (addMore # "y" /\ selection.i >= 2) \/ addMore = "n"
                        THEN "done" ELSE "choose" ]
  /\ UNCHANGED <<core, sessionManager, batch>>

\* The answer to 'Choose agent i + 1'.
AgentChosen ==
  /\ selection.at = "choose"
  /\ \E t \in Typed :
       LET availableFiltered == remainingAgents(selection.availableAgents,
                                                selection.selectedAgents)
           agentIndex        == selectFromList(availableFiltered, t)
       IN  selection' =
             [ selection EXCEPT
                 !.selectedAgents = Append(@, availableFiltered[agentIndex + 1]),
                 !.i  = @ + 1,
                 !.at = IF selection.i + 1 < selectionLimit(selection.availableAgents)
                        THEN "ask" ELSE "done" ]
  /\ UNCHANGED <<core, sessionManager, batch>>

\* The list has been handed to runCollaboration; the handler may run again.
SelectionHandedOver ==
  /\ selection.at = "done"
  /\ selection' = NoSelection
  /\ UNCHANGED <<core, sessionManager, batch>>

NextSelect ==
  \/ SelectionBegins
  \/ AddMoreAnswered
  \/ AgentChosen
  \/ SelectionHandedOver

SpecSelect == InitSelect /\ [][NextSelect]_vars

\* C24: whatever the user types, the list the selection hands over has at most
\* 3 agents, no two of them the same (provider, model) pair, each one of the
\* available agents, and it is not empty when an agent is available.
C24_SelectedAgentsAreDistinct ==
  selection.at \in {"ask", "choose", "done"} =>
    LET selected  == selection.selectedAgents
        available == selection.availableAgents
    IN  /\ Len(selected) <= 3
        /\ \A i, j \in 1..Len(selected) : selected[i] = selected[j] => i = j
        /\ \A i \in 1..Len(selected) :
             \E k \in 1..Len(available) : available[k] = selected[i]
        /\ selection.at = "done" /\ Len(available) >= 1 => Len(selected) >= 1

\* Three agents chosen out of six, the first of them not the default.
C24_Witness ==
  /\ selection.at = "done"
  /\ Len(selection.availableAgents) = 6
  /\ Len(selection.selectedAgents) = 3
  /\ selection.selectedAgents[1] = selection.availableAgents[5]
  /\ selection.selectedAgents[2] = selection.availableAgents[1]

(***************************************************************************)
(* SessionManager.  A session file holds what saveSession wrote last; the  *)
(* id of a session is the number of sessions made so far in place of the   *)
(* random bytes, and the timestamps are left out.                          *)
(***************************************************************************)
\* text.substring(0, k) + (text.length > k ? '...' : '')
preview(text, k) ==
  Substring(text, k) \o (IF Length(text) > k THEN <<Lit("...")>> ELSE <<>>)

\* createSession(name) followed by its saveSession
createSession(sm, name) ==
  LET session == [ id            |-> sm.made + 1,
                   name          |-> name,
                   conversations |-> <<>>,
                   totalRequests |-> 0,
                   models        |-> <<>> ]
  IN  [currentSession |-> session, file |-> session, made |-> sm.made + 1]

\* if (!models.includes(model)) models.push(model)
modelsWith(list, model) ==
  IF \E i \in 1..Len(list) : list[i] = model THEN list ELSE Append(list, model)

\* addConversation(input, output, model, task, metadata) followed by its
\* saveSession
addConversation(sm, inputText, outputText, model, task, metadata) ==
  IF sm.currentSession = null THEN sm
  ELSE LET session ==
             [ sm.currentSession EXCEPT
                 !.conversations = Append(@, [ input    |-> preview(inputText, 500),
                                               output   |-> preview(outputText, 1000),
                                               model    |-> model,
                                               task     |-> task,
                                               metadata |-> metadata ]),
                 !.totalRequests = @ + 1,
                 !.models        = modelsWith(@, model) ]
       IN  [sm EXCEPT !.currentSession = session, !.file = session]

\* if (!sessionManager.currentSession) sessionManager.createSession(name)
withSession(sm, name) == IF sm.currentSession = null THEN createSession(sm, name) ELSE sm

(***************************************************************************)
(* runAgent, processBatchQueries and processQueryAcrossModels.             *)
(***************************************************************************)
\* What the provider does with the request of runAgent.
agentReplies(provider) ==
  { [kind |-> "network error"], [kind |-> "malformed body"] }
  \cup { [kind |-> "body", text |-> t] : t \in ReplyTexts }
  \cup ( IF provider = "ollama" THEN {} ELSE { [kind |-> "body", text |-> Absent] } )

\* runAgent(provider, task, inputText, submodel), given the reply: an empty or
\* missing text is an error.
runAgent(provider, reply) ==
  IF reply.kind = "network error"
  THEN [success |-> FALSE, error |-> "Request failed"]
  ELSE IF provider = "ollama"
  THEN IF reply.kind = "malformed body" \/ Trim(reply.text) = <<>>
       THEN [success |-> FALSE, error |-> "Model returned empty response"]
       ELSE [success |-> TRUE, result |-> Trim(reply.text)]
  ELSE IF reply.kind = "malformed body"
  THEN [success |-> FALSE, error |-> "Failed to parse model response"]
  ELSE IF reply.text = Absent \/ reply.text = <<>>
  THEN [success |-> FALSE, error |-> "Model returned empty result"]
  ELSE [success |-> TRUE, result |-> reply.text]

\* The entries of a list of queries: a string, or an object of a JSON file with
\* a query field, a text field or neither.
Undefined == <<[w |-> "undefined", n |-> 0]>>

QueryTexts == { Words(<<"is", "it", "fine">>), Words(<<"why">>) }

QueryItems ==
  { [type |-> "string", text |-> t] : t \in QueryTexts }
  \cup { [type |-> "object", query |-> Words(<<"why">>), text |-> Undefined],
         [type |-> "object", query |-> Undefined, text |-> Words(<<"is", "it", "fine">>)],
         [type |-> "object", query |-> Undefined, text |-> Undefined] }

QueryLists == UNION { [1..n -> QueryItems] : n \in 0..MaxQueries }

\* typeof q === 'object' ? q.query || q.text : q
queryOf(item) ==
  IF item.type = "string" THEN item.text
  ELSE IF item.query # Undefined THEN item.query ELSE item.text

\* Object.keys(MODELS).filter(key => MODELS[key].key || key === 'ollama')
configuredProviders(keys) ==
  SelectSeq(ProviderOrder, LAMBDA key : key \in keys \/ key = "ollama")

\* generateBatchReport(results, model)
generateBatchReport(list) ==
  [ total      |-> Len(list),
    successful |-> Len(SelectSeq(list, LAMBDA r : r.success)),
    failed     |-> Len(SelectSeq(list, LAMBDA r : ~r.success)),
    entries    |-> list ]

\* generateComparisonReport(query, results)
generateComparisonReport(query, list) ==
  [ query      |-> query,
    tested     |-> Len(list),
    successful |-> Len(SelectSeq(list, LAMBDA r : r.success)),
    table      |-> IF \E i \in 1..Len(list) : list[i].success
                   THEN [ i \in 1..Len(list) |->
                            [ model  |-> list[i].model,
                              length |-> IF list[i].success
                                         THEN list[i].responseLength
                                         ELSE "N/A" ] ]
                   ELSE <<>>,
    entries    |-> list ]

\* processBatchQueries from the head of pass i of its loop to the next await:
\* query.substring throws for a query that is not a string, selectedModel.id
\* and model.desc throw when the provider lists no model.
batchLoop(b, i) ==
  IF i > Len(b.queries)
  THEN IF b.selectedModel = "undefined"
       THEN [b EXCEPT !.at = "threw", !.i = i]
       ELSE [b EXCEPT !.at = "done", !.i = i, !.report = <<generateBatchReport(b.results)>>]
  ELSE IF queryOf(b.queries[i]) = Undefined \/ b.selectedModel = "undefined"
  THEN [b EXCEPT !.at = "threw", !.i = i]
  ELSE [b EXCEPT !.at = "calling", !.i = i,
                 !.sent = Append(@, [ provider |-> b.provider,
                                      query    |-> queryOf(b.queries[i]),
                                      model    |-> b.selectedModel ])]

\* processQueryAcrossModels from the head of pass i of its loop to the next
\* await: selectedModel.id throws when the provider lists no model.
comparisonLoop(b, i) ==
  IF i > Len(b.providers)
  THEN [b EXCEPT !.at = "done", !.i = i,
                 !.report = <<generateComparisonReport(b.queries[1].text, b.results)>>]
  ELSE IF modelIds(b.providers[i], b.ollamaModels) = <<>>
  THEN [b EXCEPT !.at = "threw", !.i = i]
  ELSE [b EXCEPT !.at = "calling", !.i = i,
                 !.provider = b.providers[i],
                 !.selectedModel = modelIds(b.providers[i], b.ollamaModels)[1],
                 !.sent = Append(@, [ provider |-> b.providers[i],
                                      query    |-> b.queries[1].text,
                                      model    |-> modelIds(b.providers[i],
                                                            b.ollamaModels)[1] ])]

InitBatch ==
  /\ coreAtRest
  /\ selection = NoSelection
  /\ batch = NoBatch
  /\ sessionManager \in { NoSession, createSession(NoSession, "session") }

processBatchQueries ==
  /\ batch.at = "-"
  /\ \E keys \in SUBSET {"openai", "openrouter"}, k \in 0..MaxOllamaModels,
        queries \in QueryLists, tp \in Typed, tm \in Typed :
       LET providers        == configuredProviders(keys)
           selectedProvider == providers[selectFromList(providers, tp) + 1]
           ids              == modelIds(selectedProvider, k)
           selectedModel    == IF Len(ids) > 1 THEN ids[selectFromList(ids, tm) + 1]
                               ELSE IF Len(ids) = 1 THEN ids[1]
                               ELSE "undefined"
       IN  /\ sessionManager' = withSession(sessionManager, "Batch Processing Session")
           /\ batch' = batchLoop([ at            |-> "-",
                                   kind          |-> "batch",
                                   queries       |-> queries,
                                   providers     |-> providers,
                                   ollamaModels  |-> k,
                                   provider      |-> selectedProvider,
                                   selectedModel |-> selectedModel,
                                   i             |-> 0,
                                   results       |-> <<>>,
                                   sent          |-> <<>>,
                                   report        |-> <<>> ], 1)
  /\ UNCHANGED <<core, selection>>

BatchCallSettles ==
  /\ batch.at = "calling" /\ batch.kind = "batch"
  /\ \E reply \in agentReplies(batch.provider) :
       LET result == runAgent(batch.provider, reply)
           query  == queryOf(batch.queries[batch.i])
           pushed == Append(batch.results,
                       IF result.success
                       THEN [query |-> query, result |-> result.result, success |-> TRUE]
                       ELSE [query |-> query, error |-> result.error, success |-> FALSE])
       IN  /\ sessionManager' =
                IF result.success
                THEN addConversation(sessionManager, query, result.result,
                                     batch.provider, "Batch Processing", <<>>)
                ELSE sessionManager
           /\ batch' = batchLoop([batch EXCEPT !.results = pushed], batch.i + 1)
  /\ UNCHANGED <<core, selection>>

processQueryAcrossModels ==
  /\ batch.at = "-"
  /\ \E keys \in SUBSET {"openai", "openrouter"}, k \in 0..MaxOllamaModels,
        query \in QueryTexts :
       /\ sessionManager' = withSession(sessionManager, "Model Comparison Session")
       /\ batch' = comparisonLoop([ at            |-> "-",
                                    kind          |-> "comparison",
                                    queries       |-> <<[type |-> "string", text |-> query]>>,
                                    providers     |-> configuredProviders(keys),
                                    ollamaModels  |-> k,
                                    provider      |-> "-",
                                    selectedModel |-> "undefined",
                                    i             |-> 0,
                                    results       |-> <<>>,
                                    sent          |-> <<>>,
                                    report        |-> <<>> ], 1)
  /\ UNCHANGED <<core, selection>>

ComparisonCallSettles ==
  /\ batch.at = "calling" /\ batch.kind = "comparison"
  /\ \E reply \in agentReplies(batch.provider) :
       LET result == runAgent(batch.provider, reply)
           query  == batch.queries[1].text
           pushed == Append(batch.results,
                       IF result.success
                       THEN [ provider |-> batch.provider, model |-> batch.selectedModel,
                              result |-> result.result, success |-> TRUE,
                              responseLength |-> Length(result.result) ]
                       ELSE [ provider |-> batch.provider, model |-> batch.selectedModel,
                              error |-> result.error, success |-> FALSE ])
       IN  /\ sessionManager' =
                IF result.success
                THEN addConversation(sessionManager, query, result.result,
                                     batch.provider, "Model Comparison", <<>>)
                ELSE sessionManager
           /\ batch' = comparisonLoop([batch EXCEPT !.results = pushed], batch.i + 1)
  /\ UNCHANGED <<core, selection>>

NextBatch ==
  \/ processBatchQueries
  \/ BatchCallSettles
  \/ processQueryAcrossModels
  \/ ComparisonCallSettles

SpecBatch == InitBatch /\ [][NextBatch]_vars

\* The batch or the comparison has ended, with its report or with an exception.
batchEnded(kind) == batch.at \in {"done", "threw"} /\ batch.kind = kind

\* C25: processBatchQueries makes one agent call per query, in the order of the
\* queries, whether earlier queries failed or not, and ends with a report over
\* exactly one result per query, in query order, whose Successful and Failed
\* counts add up to Total Queries.
C25_BatchHasOneResultPerQuery ==
  batchEnded("batch") /\ batch.queries # <<>> =>
    /\ batch.at = "done"
    /\ Len(batch.sent) = Len(batch.queries)
    /\ Len(batch.results) = Len(batch.queries)
    /\ \A i \in 1..Len(batch.queries) :
         /\ batch.sent[i].query = queryOf(batch.queries[i])
         /\ batch.results[i].query = queryOf(batch.queries[i])
    /\ batch.report[1].total = Len(batch.queries)
    /\ batch.report[1].successful + batch.report[1].failed = batch.report[1].total

\* C26: the comparison sends the query once to every configured provider, in
\* provider order, and ends with a report that has one entry per configured
\* provider, whether its call succeeded, failed, or it has no model.
C26_ComparisonCoversEveryProvider ==
  batchEnded("comparison") =>
    /\ batch.at = "done"
    /\ Len(batch.report[1].entries) = Len(batch.providers)
    /\ \A i \in 1..Len(batch.providers) :
         batch.report[1].entries[i].provider = batch.providers[i]
    /\ \A i \in 1..Len(batch.sent) :
         \A j \in 1..Len(batch.sent) :
           batch.sent[i].provider = batch.sent[j].provider => i = j
(***************************************************************************)
(* The range of the confidence score.                                      *)
(***************************************************************************)
\* C27: every value estimateConfidence returns is a multiple of 5 in 25..95: the
\* score before clamping lies in 20..95, so Math.min(95, .) never changes it and
\* Math.max(25, .) only turns 20 into 25; no consensus record has a confidence
\* in 76..79, and confidence > 75 holds exactly when confidence >= 80.
C27_ConfidenceRange ==
  /\ (fn = "estimateConfidence" /\ pc = "returned") =>
       LET raw == rawConfidence(input)
       IN  /\ raw \in 20..95 /\ raw % 5 = 0
           /\ Min(95, raw) = raw
           /\ ret.score = (IF raw = 20 THEN 25 ELSE raw)
           /\ ret.score \in 25..95 /\ ret.score % 5 = 0
           /\ ret.score \notin 76..79
           /\ (ret.score > 75) <=> (ret.score >= 80)
  /\ \A p \in scoreLog : p[2] \in 25..95 /\ p[2] % 5 = 0
  /\ fn = "runConsensusMode" =>
       \A i \in 1..Len(responses) :
          /\ responses[i].confidence \notin 76..79
          /\ isHighConfidence(responses[i]) <=> (responses[i].confidence >= 80)

\* The three penalties together and no bonus: 20 before clamping, 25 returned.
C27_Witness ==
  /\ fn = "estimateConfidence" /\ pc = "returned"
  /\ rawConfidence(input) = 20
  /\ ret.score = 25


(***************************************************************************)
(* The text of a successful call.                                          *)
(***************************************************************************)
\* C28: every result that callSingleAgent marks success = true carries a string
\* as its text, so no executor stores a record whose response is absent, and
\* no executor throws after a call that succeeded.
C28_SuccessCarriesText ==
  /\ \A i \in 1..Len(calls) :
       calls[i].result.success => calls[i].result.result # Absent
  /\ \A i \in 1..Len(responses) : responses[i].response # Absent
  /\ \A i \in 1..Len(results) : results[i].output # Absent
  /\ ( /\ fn \in {"runDebateMode", "runPipelineMode", "runConsensusMode"}
       /\ pc = "threw" /\ calls # <<>> )
     => ~calls[Len(calls)].result.success


(***************************************************************************)
(* Termination of a run.                                                   *)
(***************************************************************************)
\* The orchestrator when every agent call that is awaited settles.
SpecSettling ==
  /\ Spec
  /\ WF_vars(DebateCallSettles) /\ WF_vars(PipelineCallSettles)
  /\ WF_vars(ConsensusCallSettles) /\ WF_vars(DefaultCallSettles)

Strategies == {"runDebateMode", "runPipelineMode", "runConsensusMode"}

\* The run that is awaiting a call comes to an end.
RunsEnd == (fn \in Strategies /\ pc = "awaiting") ~> Ended

\* C29: when every agent call settles, every collaboration run ends, and a run
\* over a non-empty agents list ends by returning: a debate after exactly rounds x n calls, a consensus after
\* exactly n calls, a pipeline after at most n calls; an ended run has no call
\* in flight and makes no further call.
C29_RunsTerminateAndReturn ==
  /\ RunsEnd
  /\ []( (fn \in Strategies /\ agents # <<>> /\ Ended) =>
           /\ pc = "returned"
           /\ inFlight = 0
           /\ fn = "runDebateMode" => Len(calls) = rounds * Len(agents)
           /\ fn = "runConsensusMode" => Len(calls) = Len(agents)
           /\ fn = "runPipelineMode" => Len(calls) <= Len(agents) )
  /\ [][ (fn \in Strategies /\ Ended) => (pc' = "idle" /\ inFlight' = 0) ]_vars


(***************************************************************************)
(* The session log: createSession, addConversation as handleQuickQuery     *)
(* calls it, and handleMultiAgentMode around its run of the orchestrator.  *)
(* selection holds what the handler remembers of its run: the number of    *)
(* conversations of the session when the run started and how it ended.     *)
(***************************************************************************)
\* The selections of handleMultiAgentMode followed here: no agent (none was
\* available), one agent, and the two agents of MODELS' providers in one order.
SelectedAgentLists ==
  { l \in AgentLists :
      /\ \A i \in 1..Len(l) : l[i].provider \in MODELS
      /\ Len(l) <= 2
      /\ Len(l) = 2 => l[1].provider = "openai" }

\* The head of the report string: its title.
reportHead(report) == <<Lit(report.title)>>

conversations == sessionManager.currentSession.conversations

handlerAtRest == selection.at \in {"-", "done"}

InitSession ==
  /\ coreAtRest
  /\ sessionManager = NoSession
  /\ selection = NoSelection
  /\ batch = NoBatch

\* sessionManager.createSession() of a handler or of the session menu
createSessionCall ==
  /\ Idle /\ handlerAtRest
  /\ sessionManager.made < MaxSessions
  /\ sessionManager' = createSession(sessionManager, "session")
  /\ selection' = NoSelection
  /\ UNCHANGED <<core, batch>>

\* sessionManager.addConversation(input, result.result, selectedProvider,
\* 'Quick Query', {model, cost})
addConversationCall ==
  /\ Idle /\ handlerAtRest
  /\ Len(conversations) < MaxConversations
  /\ \E inp \in Inputs, out \in {TextLow}, selectedProvider \in {"openai", "ollama"} :
       sessionManager' = addConversation(sessionManager, inp, out, selectedProvider,
                                         "Quick Query", [model |-> "default"])
  /\ selection' = NoSelection
  /\ UNCHANGED <<core, batch>>

\* handleMultiAgentMode up to the await of runCollaboration
handleMultiAgentMode ==
  /\ Idle /\ handlerAtRest
  /\ Len(conversations) < MaxConversations
  /\ \E inp \in Inputs, selectedMode \in {"Debate", "Pipeline", "Consensus"},
        selectedAgents \in SelectedAgentLists :
       LET sm == withSession(sessionManager, "session") IN
       /\ sessionManager' = sm
       /\ selection' = [ at     |-> "running",
                         before |-> Len(sm.currentSession.conversations) ]
       /\ mode' = selectedMode
       /\ CASE selectedMode = "Debate"    -> EnterDebate(inp, selectedAgents, DefaultRounds)
            [] selectedMode = "Pipeline"  -> EnterPipeline(inp, selectedAgents)
            [] selectedMode = "Consensus" -> EnterConsensus(inp, selectedAgents)
  /\ UNCHANGED batch

\* handleMultiAgentMode after runCollaboration: the report is recorded, an
\* exception leaves the handler.
MultiAgentModeEnds ==
  /\ selection.at = "running"
  /\ pc \in {"returned", "threw"}
  /\ sessionManager' =
       IF pc = "returned"
       THEN addConversation(sessionManager, input, reportHead(ret.report), "multi-agent",
                            mode \o " Mode", [agents |-> agents, mode |-> mode])
       ELSE sessionManager
  /\ selection' = [ at      |-> "done",
                    before  |-> selection.before,
                    outcome |-> pc,
                    calls   |-> Len(calls) ]
  /\ pc' = "idle"
  /\ fn' = "-" /\ mode' = "-" /\ input' = <<>> /\ agents' = <<>>
  /\ rounds' = 0 /\ round' = 0 /\ idx' = 0
  /\ responses' = <<>> /\ results' = <<>> /\ currentInput' = <<>>
  /\ pending' = NoCall /\ calls' = <<>> /\ ret' = NoValue
  /\ UNCHANGED <<scoreLog, inFlight, models, batch>>

NextSession ==
  \/ createSessionCall
  \/ addConversationCall
  \/ handleMultiAgentMode
  \/ DebateCallSettles
  \/ PipelineCallSettles
  \/ ConsensusCallSettles
  \/ MultiAgentModeEnds

SpecSession == InitSession /\ [][NextSession]_vars

isPrefix(a, b) == Len(a) <= Len(b) /\ SubSeq(b, 1, Len(a)) = a

\* C30: the current session's totalRequests is the length of its conversations,
\* its models list has no duplicates and the saved session is the current one;
\* conversations are only appended; without a current session only
\* createSession changes anything; a collaboration run that has ended added
\* exactly one conversation, however many calls it made.
C30_SessionLog ==
  /\ []( LET session == sessionManager.currentSession IN
           /\ session.totalRequests = Len(session.conversations)
           /\ \A i, j \in 1..Len(session.models) :
                session.models[i] = session.models[j] => i = j
           /\ sessionManager.file = session )
  /\ [][ sessionManager'.currentSession.id = sessionManager.currentSession.id
           => isPrefix(conversations, conversations') ]_vars
  /\ [][ sessionManager.currentSession = null
           => \/ sessionManager' = sessionManager
              \/ sessionManager'.currentSession.conversations = <<>> ]_vars
  /\ []( (selection.at = "done" /\ selection.calls > 0)
           => Len(conversations) = selection.before + 1 )


====
